---- MODULE Spec2Model ----
(***************************************************************************)
(* A model of wic's misc.py: the BitbakeVars variable store (get_var,      *)
(* _parse_line) and the native command dispatch (exec_native_cmd,          *)
(* find_executable, _exec_cmd, runtool).                                   *)
(*                                                                         *)
(* Python strings are TLA+ strings; Python's None is the string NONE.      *)
(* The store is a defaultdict of dict objects: bb_vars is the set of its   *)
(* objects, each with the keys that refer to it, so that                   *)
(* `self[None] = self[image_key]` shares one object.                       *)
(*                                                                         *)
(* ret is the observation of the last call (its arguments and outcome);    *)
(* first_default is a history variable: the first key whose submap was     *)
(* installed under the None key. threads is the position of each caller   *)
(* that runs get_var concurrently with the others.                         *)
(***************************************************************************)
EXTENDS Integers, Sequences, FiniteSets, TLC

VARIABLES bb_vars, default_image, vars_dir, files, ret, first_default, threads

vars ==
  <<bb_vars, default_image, vars_dir, files, ret, first_default, threads>>

\* Python's None (as a key, as a value and as "no result").
NONE == "<None>"

\* Python truthiness of an optional string: None and "" are falsy.
Truthy(x) == x /= NONE /\ x /= ""

\* "%s" % x
Str(x) == IF x = NONE THEN "None" ELSE x

------------------------------------------------------------------------------
(* String primitives of Python used by the code. *)

Char(s, i) == SubSeq(s, i, i)

\* sub in s
Contains(s, sub) ==
  \E i \in 1..(Len(s) + 1) :
     i + Len(sub) - 1 <= Len(s) /\ SubSeq(s, i, i + Len(sub) - 1) = sub

\* s.endswith(suf)
EndsWith(s, suf) ==
  Len(suf) <= Len(s) /\ SubSeq(s, Len(s) - Len(suf) + 1, Len(s)) = suf

\* the smallest index from i on of a character of s that is in the set cs,
\* 0 when there is none
RECURSIVE FindFrom(_, _, _)
FindFrom(s, cs, i) ==
  IF i > Len(s) THEN 0
  ELSE IF Char(s, i) \in cs THEN i
  ELSE FindFrom(s, cs, i + 1)

\* the smallest index from i on of a character of s that is not in the set
\* cs, Len(s) + 1 when there is none
RECURSIVE SkipFrom(_, _, _)
SkipFrom(s, cs, i) ==
  IF i > Len(s) THEN i
  ELSE IF Char(s, i) \notin cs THEN i
  ELSE SkipFrom(s, cs, i + 1)

\* the largest index up to i of a character of s that is in the set cs, 0
\* when there is none
RECURSIVE FindBack(_, _, _)
FindBack(s, cs, i) ==
  IF i < 1 THEN 0
  ELSE IF Char(s, i) \in cs THEN i
  ELSE FindBack(s, cs, i - 1)

\* the largest index up to i of a character of s that is not in the set cs,
\* 0 when there is none
RECURSIVE SkipBack(_, _, _)
SkipBack(s, cs, i) ==
  IF i < 1 THEN 0
  ELSE IF Char(s, i) \notin cs THEN i
  ELSE SkipBack(s, cs, i - 1)

\* the smallest index of character c in s, 0 when there is none (s.find(c) + 1)
Find(s, c) == FindFrom(s, {c}, 1)

\* the largest index of character c in s, 0 when there is none (s.rfind(c) + 1)
RFind(s, c) == FindBack(s, {c}, Len(s))

\* s.strip(chars): every leading and every trailing character of the set goes
StripChars(s, chars) ==
  SubSeq(s, SkipFrom(s, chars, 1), SkipBack(s, chars, Len(s)))

Whitespace == {" ", "\n", "\t", "\r"}

\* s.strip()
Strip(s) == StripChars(s, Whitespace)

\* s.split(sep)[-1] for a one-character separator
SplitLast(s, sep) == SubSeq(s, RFind(s, sep) + 1, Len(s))

\* s.split(): the whitespace-separated words of s
RECURSIVE Words(_)
Words(s) ==
  LET t == Strip(s)
      e == FindFrom(t, Whitespace, 1)
  IN  IF t = "" THEN <<>>
      ELSE IF e = 0 THEN <<t>>
      ELSE <<SubSeq(t, 1, e - 1)>> \o Words(SubSeq(t, e + 1, Len(t)))

\* s.split(sep): the pieces of s between occurrences of the character sep
RECURSIVE SplitOn(_, _)
SplitOn(s, sep) ==
  LET i == Find(s, sep)
  IN  IF i = 0 THEN <<s>>
      ELSE <<SubSeq(s, 1, i - 1)>> \o SplitOn(SubSeq(s, i + 1, Len(s)), sep)

Digits == "0123456789"

\* "%s" % n for a natural number n
RECURSIVE IntStr(_)
IntStr(n) ==
  IF n < 10 THEN Char(Digits, n + 1)
  ELSE IntStr(n \div 10) \o Char(Digits, (n % 10) + 1)

\* os.path.basename(p)
Basename(p) == SubSeq(p, RFind(p, "/") + 1, Len(p))

\* os.path.join(a, b) for a relative b
PathJoin(a, b) == IF EndsWith(a, "/") THEN a \o b ELSE a \o "/" \o b

\* os.path.splitext(p)[0]: the extension starts at the last dot of the base
\* name, unless only dots precede it there (a leading-dot name has none)
SplitextRoot(p) ==
  LET sep == RFind(p, "/")
      dot == RFind(p, ".")
  IN  IF dot > sep /\ \E i \in (sep + 1)..(dot - 1) : Char(p, i) /= "."
      THEN SubSeq(p, 1, dot - 1)
      ELSE p

------------------------------------------------------------------------------
(* BitbakeVars._parse_line *)

Letters == "abcdefghijklmnopqrstuvwxyzABCDEFGHIJKLMNOPQRSTUVWXYZ0123456789-_+./~"

\* the character class [a-zA-Z0-9\-_+./~] of the matcher
NameChars == {Char(Letters, i) : i \in 1..Len(Letters)}

\* the length of the longest prefix of line made of name characters
NamePrefixLen(line) == SkipFrom(line, NameChars, 1) - 1

\* a slip: the pattern is searched for anywhere in the line (matcher.search)
MatcherMatches_Search(line) == Contains(line, "=")

\* matcher.match(line): ^([a-zA-Z0-9\-_+./~]+)=(.*) ; '=' is no name character,
\* so group 1 is the whole name prefix, and '.' stops at the line's newline
MatcherMatches(line) ==
  LET n == NamePrefixLen(line)
  IN  n >= 1 /\ n < Len(line) /\ Char(line, n + 1) = "="

MatchKey(line) == SubSeq(line, 1, NamePrefixLen(line))

MatchVal(line) ==
  LET rest == SubSeq(line, NamePrefixLen(line) + 2, Len(line))
      nl   == Find(rest, "\n")
  IN  IF nl = 0 THEN rest ELSE SubSeq(rest, 1, nl - 1)

\* val.strip('"')
StripQuotes(val) == StripChars(val, {"\""})

------------------------------------------------------------------------------
(* The store. A dict object is a record [keys, d]: the keys of the store    *)
(* that refer to it and its contents; the store is the set of its objects. *)
(* Two keys share an object exactly when `self[k1] is self[k2]`; an object *)
(* no key refers to is gone.                                               *)

EmptyDict == [k \in {} |-> ""]

\* d[key] = val
DictSet(d, key, val) ==
  [k \in (DOMAIN d) \cup {key} |-> IF k = key THEN val ELSE d[k]]

\* d.get(var)
DictGet(d, var) == IF var \in DOMAIN d THEN d[var] ELSE NONE

\* the keys of the store: `k in self`
Keys(st) == UNION {o.keys : o \in st}

\* the object self[k] of a present key
Obj(st, k) == CHOOSE o \in st : k \in o.keys

\* the contents of self[k]
Submap(st, k) == Obj(st, k).d

\* key k no longer refers to its object
Unbind(st, k) ==
  {o \in {[keys |-> p.keys \ {k}, d |-> p.d] : p \in st} : o.keys /= {}}

\* defaultdict.__getitem__: self[key], creating an empty dict for a missing key
Touch(st, key) ==
  IF key \in Keys(st) THEN st ELSE st \cup {[keys |-> {key}, d |-> EmptyDict]}

\* self[image][key] = val
StoreSet(st, image, key, val) ==
  LET t == Touch(st, image)
      o == Obj(t, image)
  IN  (t \ {o}) \cup {[keys |-> o.keys, d |-> DictSet(o.d, key, val)]}

\* self[dst] = self[src]
Alias(st, dst, src) ==
  LET t == Touch(st, src)
      u == Unbind(t, dst)
      o == Obj(u, src)
  IN  IF dst = src THEN t
      ELSE (u \ {o}) \cup {[keys |-> o.keys \cup {dst}, d |-> o.d]}

\* self.pop(key, None)
Pop(st, key) == Unbind(st, key)

------------------------------------------------------------------------------
(* The bounded world: the names and contents the environment chooses from. *)

\* the files that may exist in VarsRoot
FileNames == {"a.env", "b.env"}

\* the image argument of a call (NONE: omitted)
ImageArgs == {NONE, "a", "b"}

\* the variables callers ask for
VarArgs == {"V"}

\* the contents an environment dump may have
EnvA == << "V=\"1\"\n", "HOSTTOOLS_DIR=\"/ht\"\n", "TARGET_SYS=\"arm\"\n",
           "ASSUME_PROVIDED=\"tar-native\"\n" >>
EnvB == << "V=\"\"2\"\"\n", "ASSUME_PROVIDED=\"xtar-native\"\n" >>
EnvC == << "# comment\n", "export V=3\n", "=x\n", "V W=4\n", "\n" >>

Contents == {EnvA, EnvB, EnvC}

\* every line of every content
Lines == UNION {{c[i] : i \in DOMAIN c} : c \in Contents}

\* what _parse_line finds in each line, computed once per line
LineTable ==
  [line \in Lines |->
     [has_eq  |-> Contains(line, "="),
      matched |-> MatcherMatches(line),
      key     |-> MatchKey(line),
      val     |-> StripQuotes(MatchVal(line))]]

ParseLine(st, line, image) ==
  IF ~LineTable[line].has_eq THEN st
  ELSE IF ~LineTable[line].matched THEN st
  ELSE StoreSet(st, image, LineTable[line].key, LineTable[line].val)

\* for line in varsfile: self._parse_line(line, image_key)
RECURSIVE ParseFile(_, _, _)
ParseFile(st, lines, image) ==
  IF lines = <<>> THEN st
  ELSE ParseFile(ParseLine(st, Head(lines), image), Tail(lines), image)

------------------------------------------------------------------------------
(* The file system get_var reads: one directory, VarsRoot, whose regular    *)
(* files are the domain of `files`; files[n] is the file's lines, each      *)
(* ending in its newline, as iterating an open text file yields them.       *)

VarsRoot == "/d"

\* os.path.isfile(p)
IsFile(p) == \E n \in DOMAIN files : p = PathJoin(VarsRoot, n)

\* os.path.isdir(p)
IsDir(p) == p = VarsRoot

\* open(fname): the lines of the file
FileLines(p) == files[Basename(p)]

\* [f for f in os.listdir(env_source) if f.endswith(".env")]
EnvFiles == {f \in DOMAIN files : EndsWith(f, ".env")}

------------------------------------------------------------------------------
(* BitbakeVars.get_var: the outcome of one call on store st, a record       *)
(*   st        the store after the call                                    *)
(*   exc       NONE, or the class of the exception raised                  *)
(*   msg       the exception's message                                     *)
(*   result    the value returned (NONE: the variable is unset)            *)
(*   parsed    NONE, or the key the source file was parsed into            *)
(*   fname     NONE, or the file that was read                             *)
(*   key       NONE, or the key the variable was looked up under           *)
(*   mirrored  NONE, or the key whose submap was installed under None      *)

\* a slip: the store is emptied when the error is raised
Raise_Emptied(st, msg) ==
  [st |-> {}, exc |-> "WicError", msg |-> msg, result |-> NONE,
   parsed |-> NONE, fname |-> NONE, key |-> NONE, mirrored |-> NONE]

\* raise WicError(msg): the call is over and the store is as it was
Raise(st, msg) ==
  [st |-> st, exc |-> "WicError", msg |-> msg, result |-> NONE,
   parsed |-> NONE, fname |-> NONE, key |-> NONE, mirrored |-> NONE]

MsgNotProvided ==
  "BitBake environment not provided. Run 'bitbake -c rootfs_wicenv <image>' "
  \o "and pass --vars /path/to/<image>.env to wic."

MsgNoEnvFiles(env_source) ==
  "No .env files found in " \o env_source
  \o ". Run 'bitbake -c rootfs_wicenv <image>' to generate one."

MsgMultiple(env_source) ==
  "Multiple .env files found in " \o env_source
  \o ". Select one with --image-name or point --vars to the specific file."

MsgNotExist(env_source) ==
  "The supplied vars path " \o env_source \o " does not exist."

MsgCouldntGet(var, where, image_key) ==
  "Couldn't get bitbake variable " \o var \o " from " \o where
  \o ". Generate the vars file with 'bitbake -c rootfs_wicenv "
  \o (IF Truthy(image_key) THEN image_key ELSE "<image>")
  \o "' and pass it to wic using --vars."

\* line 261: key = image if image in self else image_key
LookupKey(st, image, image_key) ==
  IF image \in Keys(st) THEN image ELSE image_key

\* lines 261-266: look the variable up, evict the key on cache=False
Lookup(st, var, image, image_key, cache, parsed, fname, mirrored) ==
  LET key == LookupKey(st, image, image_key)
      t   == Touch(st, key)
  IN  [st     |-> IF cache THEN t ELSE Pop(t, key),
       exc    |-> NONE, msg |-> "",
       result |-> DictGet(Submap(t, key), var),
       parsed |-> parsed, fname |-> fname, key |-> key, mirrored |-> mirrored]

\* lines 256-258: cache is set and the store holds one key that is not falsy
Mirrors(st, cache) ==
  cache /\ Cardinality({k \in Keys(st) : Truthy(k)}) = 1

\* lines 255-259: make the first image the default set of variables
MirrorDefault(st, image_key, cache) ==
  IF Mirrors(st, cache) THEN Alias(st, NONE, image_key) ELSE st

\* line 246: not fname or not os.path.isfile(fname)
Unreadable(fname) == ~Truthy(fname) \/ ~IsFile(fname)

\* lines 246-259: read fname into image_key's submap
Populate(st, var, image, image_key, fname, env_source, cache) ==
  IF Unreadable(fname)
  THEN Raise(st, MsgCouldntGet(var, IF Truthy(fname) THEN fname ELSE env_source,
                               image_key))
  ELSE LET p == ParseFile(st, FileLines(fname), image_key)
       IN  Lookup(MirrorDefault(p, image_key, cache),
                  var, image, image_key, cache, image_key, fname,
                  IF Mirrors(p, cache) THEN image_key ELSE NONE)

\* a slip: any non-empty list of .env files is taken for a single one
OneEnvFile_AnyFile == Cardinality(EnvFiles) >= 1

\* line 232: len(env_files) == 1
OneEnvFile == Cardinality(EnvFiles) = 1

\* line 211: image = image or self.default_image
Resolve(image_arg) == IF Truthy(image_arg) THEN image_arg ELSE default_image

\* a slip: the membership test of line 213 never finds the image
InStore_Never(st, image) == FALSE

\* line 213: image in self
InStore(st, image) == image \in Keys(st)

GetVar(st, var, image_arg, cache) ==
  LET image == Resolve(image_arg)
  IN  IF InStore(st, image)
      THEN Lookup(st, var, image, image, cache, NONE, NONE, NONE)
      ELSE IF ~Truthy(vars_dir) THEN Raise(st, MsgNotProvided)
      ELSE LET env_source == vars_dir
           IN  IF IsFile(env_source)
               THEN Populate(st, var, image,
                             IF Truthy(image) THEN image
                             ELSE SplitextRoot(Basename(env_source)),
                             env_source, env_source, cache)
               ELSE IF IsDir(env_source)
               THEN IF Truthy(image)
                    THEN Populate(st, var, image, image,
                                  PathJoin(env_source, image \o ".env"),
                                  env_source, cache)
                    ELSE IF OneEnvFile
                    THEN LET f == CHOOSE f \in EnvFiles : TRUE
                         IN  Populate(st, var, image, SplitextRoot(f),
                                      PathJoin(env_source, f), env_source, cache)
                    ELSE IF EnvFiles = {}
                    THEN Raise(st, MsgNoEnvFiles(env_source))
                    ELSE Raise(st, MsgMultiple(env_source))
               ELSE Raise(st, MsgNotExist(env_source))

------------------------------------------------------------------------------
(* The native command dispatch. *)

\* executable -> recipe pairs for exec_native_cmd
NATIVE_RECIPES ==
  ("bmaptool" :> "bmaptool") @@ ("dumpe2fs" :> "e2fsprogs")
  @@ ("grub-mkimage" :> "grub-efi") @@ ("isohybrid" :> "syslinux")
  @@ ("mcopy" :> "mtools") @@ ("mdel" :> "mtools") @@ ("mdeltree" :> "mtools")
  @@ ("mdir" :> "mtools") @@ ("mkdosfs" :> "dosfstools")
  @@ ("mkisofs" :> "cdrtools") @@ ("mkfs.btrfs" :> "btrfs-tools")
  @@ ("mkfs.erofs" :> "erofs-utils") @@ ("mkfs.ext2" :> "e2fsprogs")
  @@ ("mkfs.ext3" :> "e2fsprogs") @@ ("mkfs.ext4" :> "e2fsprogs")
  @@ ("mkfs.vfat" :> "dosfstools") @@ ("mksquashfs" :> "squashfs-tools")
  @@ ("mkswap" :> "util-linux") @@ ("mmd" :> "mtools") @@ ("parted" :> "parted")
  @@ ("sfdisk" :> "util-linux") @@ ("sgdisk" :> "gptfdisk")
  @@ ("syslinux" :> "syslinux") @@ ("tar" :> "tar")

\* NATIVE_RECIPES.get(prog)
RecipeGet(prog) ==
  IF prog \in DOMAIN NATIVE_RECIPES THEN NATIVE_RECIPES[prog] ELSE NONE

\* lines 119-121: the recipe of cmd, cmd itself when the table has none
RecipeOf(cmd) ==
  IF cmd \in DOMAIN NATIVE_RECIPES THEN NATIVE_RECIPES[cmd] ELSE cmd

\* line 123: provided and "%s-native" % recipe in provided
AssumeProvided(provided, recipe) ==
  Truthy(provided) /\ Contains(provided, recipe \o "-native")

\* lines 146-149
NativePaths(native_sysroot, target_sys, hosttools_dir) ==
  native_sysroot \o "/sbin:" \o native_sysroot \o "/usr/sbin:"
  \o native_sysroot \o "/usr/bin:" \o native_sysroot \o "/usr/bin/"
  \o Str(target_sys) \o ":" \o native_sysroot \o "/bin:" \o Str(hosttools_dir)

\* lines 151-152
NativeCmdAndArgs(native_paths, cmd_and_args) ==
  "export PATH=" \o native_paths \o ":$PATH;" \o cmd_and_args

\* the command lines, the sysroot and the privilege-emulation prefixes callers
\* pass to exec_native_cmd
Commands ==
  {"tar -cf x.tar x", "export A=1;sgdisk -n 1", "foo -x", "mkdir -p x;"}
NativeSysroot == "/sr"
Pseudos == {"", "pseudo "}

\* line 137: cmd_and_args.split(';')[-1].split()
SplitArgs(cmd_and_args) == Words(SplitLast(cmd_and_args, ";"))

\* the arguments of each command line, computed once
CmdArgs == [cmd \in Commands |-> SplitArgs(cmd)]

Args(cmd_and_args) ==
  IF cmd_and_args \in Commands THEN CmdArgs[cmd_and_args]
  ELSE SplitArgs(cmd_and_args)

\* the values a variable of the environment dumps can have
Values == {NONE} \cup {LineTable[l].val : l \in Lines}

\* the search paths exec_native_cmd can build from them, and the directories
\* of each, computed once
SearchPaths == {NativePaths(NativeSysroot, t, h) : t \in Values, h \in Values}
PathDirs == [p \in SearchPaths |-> SplitOn(p, ":")]

\* paths.split(os.pathsep)
SplitPath(paths) ==
  IF paths \in SearchPaths THEN PathDirs[paths] ELSE SplitOn(paths, ":")

\* shutil.which(cmd, path=paths) for a cmd without a directory part: the first
\* directory of paths that holds an executable cmd; execs is the set of the
\* executables of the file system
Which(cmd, paths, execs) ==
  LET dirs == SplitPath(paths)
      hits == {i \in DOMAIN dirs : PathJoin(dirs[i], cmd) \in execs}
  IN  IF hits = {} THEN NONE
      ELSE PathJoin(dirs[CHOOSE i \in hits : \A j \in hits : i <= j], cmd)

\* line 81
MsgCannotRun(cmd) == "Cannot run command: " \o cmd \o ", lost dependency?"

\* lines 103-104
MsgNotZero(cmd_and_args, rc, out) ==
  "_exec_cmd: " \o cmd_and_args \o " returned '" \o IntStr(rc)
  \o "' instead of 0\noutput: " \o out

\* line 160
MsgCantFindNative(prog, native_paths) ==
  "can't find native executable " \o prog \o " in " \o native_paths

\* line 165: the privilege-emulation wrapper's own message
MsgWrapperCantFind(prog) == "Can't find '" \o prog \o "' in $PATH."

\* lines 166-174
MsgNativeMissing(prog) ==
  "A native program " \o prog \o " required to build the image "
  \o "was not found (see details above).\n\n"
  \o (IF Truthy(RecipeGet(prog))
      THEN "Please make sure wic-tools have " \o RecipeGet(prog)
           \o "-native in its DEPENDS, "
           \o "build it with 'bitbake wic-tools' and try again.\n"
      ELSE "Wic failed to find a recipe to build native " \o prog
           \o ". Please file a bug against wic.\n")

\* the outcome the operating system gives a child process: it exits with a
\* return code and its combined output, or it cannot be started (an OSError)
ChildExit(rc, out) == [kind |-> "exit", rc |-> rc, out |-> out, errno |-> 0]
ChildOSError(errno) == [kind |-> "oserror", rc |-> -1, out |-> "", errno |-> errno]

\* shlex.split(cmdln)[0] for a command line whose first word has no quoting:
\* from the first character that is no whitespace up to the next whitespace
ShlexFirst(cmdln) ==
  LET start == SkipFrom(cmdln, Whitespace, 1)
      stop  == FindFrom(cmdln, Whitespace, start)
  IN  SubSeq(cmdln, start, IF stop = 0 THEN Len(cmdln) ELSE stop - 1)

\* a slip: every failure to start the process is taken for a lost dependency
LostDependency_Any(errno) == TRUE

\* line 79: err.errno == 2, no such file or directory
LostDependency(errno) == errno = 2

\* lines 73-74: the calls of subprocess.Popen one runtool makes
Popens == {"Popen"}

\* runtool(cmdln_or_args): a string runs through the shell, a list directly;
\* spawned counts the processes it tried to start
RunTool(cmdln_or_args, shell, child) ==
  LET cmd == IF shell THEN ShlexFirst(cmdln_or_args) ELSE cmdln_or_args[1]
      n   == Cardinality(Popens)
  IN  IF child.kind = "oserror"
      THEN IF LostDependency(child.errno)
           THEN [exc |-> "WicError", msg |-> MsgCannotRun(cmd), rc |-> -1,
                 out |-> "", spawned |-> n]
           ELSE [exc |-> "OSError", msg |-> "", rc |-> -1, out |-> "",
                 spawned |-> n]
      ELSE [exc |-> NONE, msg |-> "", rc |-> child.rc, out |-> child.out,
            spawned |-> n]

\* a slip: _exec_cmd runs the command a second time when it failed
ExecCmd_Retry(cmd_and_args, as_shell, child) ==
  LET r   == IF as_shell THEN RunTool(cmd_and_args, TRUE, child)
             ELSE RunTool(Words(cmd_and_args), FALSE, child)
      out == Strip(r.out)
  IN  IF r.exc /= NONE THEN [r EXCEPT !.spawned = r.spawned + r.spawned]
      ELSE IF r.rc /= 0
      THEN [exc |-> "WicError", msg |-> MsgNotZero(cmd_and_args, r.rc, out),
            rc |-> -1, out |-> "", spawned |-> r.spawned + r.spawned]
      ELSE [exc |-> NONE, msg |-> "", rc |-> r.rc, out |-> out,
            spawned |-> r.spawned]

\* line 102: a return code other than 0 is an error of _exec_cmd
ExecFailed(rc) == rc /= 0

\* _exec_cmd(cmd_and_args, as_shell)
ExecCmd(cmd_and_args, as_shell, child) ==
  LET r   == IF as_shell THEN RunTool(cmd_and_args, TRUE, child)
             ELSE RunTool(Words(cmd_and_args), FALSE, child)
      out == Strip(r.out)
  IN  IF r.exc /= NONE THEN r
      ELSE IF ExecFailed(r.rc)
      THEN [exc |-> "WicError", msg |-> MsgNotZero(cmd_and_args, r.rc, out),
            rc |-> -1, out |-> "", spawned |-> r.spawned]
      ELSE [exc |-> NONE, msg |-> "", rc |-> r.rc, out |-> out,
            spawned |-> r.spawned]

\* the first of two optional keys
FirstOf(a, b) == IF a /= NONE THEN a ELSE b

\* find_executable(cmd, paths) on store st: found tells whether the result is
\* truthy, searched whether shutil.which was called, provided what
\* ASSUME_PROVIDED was read as
FindExecutable(st, cmd, paths, execs) ==
  LET g == GetVar(st, "ASSUME_PROVIDED", NONE, TRUE)
  IN  IF g.exc /= NONE
      THEN [st |-> g.st, mirrored |-> g.mirrored, exc |-> g.exc, msg |-> g.msg,
            found |-> FALSE, searched |-> FALSE, provided |-> NONE]
      ELSE IF AssumeProvided(g.result, RecipeOf(cmd))
      THEN [st |-> g.st, mirrored |-> g.mirrored, exc |-> NONE, msg |-> "",
            found |-> TRUE, searched |-> FALSE, provided |-> g.result]
      ELSE [st |-> g.st, mirrored |-> g.mirrored, exc |-> NONE, msg |-> "",
            found |-> Truthy(Which(cmd, paths, execs)), searched |-> TRUE,
            provided |-> g.result]

\* the test of lines 164-165 without its exit code 127
IsMissing_WrapperOnly(pseudo, prog, rc, out) ==
  Truthy(pseudo) /\ rc = 1 /\ out = MsgWrapperCantFind(prog)

\* lines 164-165: the outcome means the native program is missing
IsMissing(pseudo, prog, rc, out) ==
  rc = 127 \/ (Truthy(pseudo) /\ rc = 1 /\ out = MsgWrapperCantFind(prog))

\* exec_native_cmd raising before any child process is started
NativeRaise(st, mirrored, exc, msg, prog, searched) ==
  [st |-> st, mirrored |-> mirrored, exc |-> exc, msg |-> msg, rc |-> -1,
   out |-> "", spawned |-> 0, searched |-> searched, prog |-> prog,
   shell_cmd |-> NONE, decided |-> FALSE, paths |-> NONE, provided |-> NONE]

\* lines 155-177: run the command if the program is there, classify the result
Dispatch(f, mirrored, prog, pseudo, native_paths, shell_cmd, child) ==
  LET e   == ExecCmd(shell_cmd, TRUE, child)
      rc  == IF f.found THEN e.rc ELSE 127
      out == IF f.found THEN e.out ELSE MsgCantFindNative(prog, native_paths)
      run == [st |-> f.st, mirrored |-> mirrored, searched |-> f.searched,
              prog |-> prog, spawned |-> IF f.found THEN e.spawned ELSE 0,
              shell_cmd |-> IF f.found THEN shell_cmd ELSE NONE,
              decided |-> TRUE, paths |-> native_paths,
              provided |-> f.provided]
  IN  IF f.found /\ e.exc /= NONE
      THEN run @@ [exc |-> e.exc, msg |-> e.msg, rc |-> -1, out |-> ""]
      ELSE IF IsMissing(pseudo, prog, rc, out)
      THEN run @@ [exc |-> "WicError", msg |-> MsgNativeMissing(prog),
                   rc |-> -1, out |-> ""]
      ELSE run @@ [exc |-> NONE, msg |-> "", rc |-> rc, out |-> out]

\* the only element of a one-element set
Only(S) == CHOOSE x \in S : TRUE

\* lines 155-177, once HOSTTOOLS_DIR (h) and TARGET_SYS (t) are read
SearchAndRun(h, t, args, full, native_sysroot, pseudo, execs, child) ==
  LET m2 == FirstOf(h.mirrored, t.mirrored)
      native_paths == NativePaths(native_sysroot, t.result, h.result)
  IN  IF args = <<>>
      THEN NativeRaise(t.st, m2, "IndexError", "list index out of range",
                       NONE, FALSE)
      ELSE Only({IF f.exc /= NONE
                 THEN NativeRaise(f.st, FirstOf(m2, f.mirrored), f.exc, f.msg,
                                  args[1], FALSE)
                 ELSE Dispatch(f, FirstOf(m2, f.mirrored), args[1], pseudo,
                               native_paths,
                               NativeCmdAndArgs(native_paths, full), child) :
                 f \in {FindExecutable(t.st, args[1], native_paths, execs)}})

\* lines 144-177, once HOSTTOOLS_DIR (h) is read
ReadTargetSys(h, args, full, native_sysroot, pseudo, execs, child) ==
  Only({IF t.exc /= NONE
        THEN NativeRaise(t.st, FirstOf(h.mirrored, t.mirrored), t.exc, t.msg,
                         NONE, FALSE)
        ELSE SearchAndRun(h, t, args, full, native_sysroot, pseudo, execs, child) :
        t \in {GetVar(h.st, "TARGET_SYS", NONE, TRUE)}})

\* exec_native_cmd(cmd_and_args, native_sysroot, pseudo) on store st, with the
\* executables execs on the file system and the outcome child of the process
ExecNativeCmd(st, cmd_and_args, native_sysroot, pseudo, execs, child) ==
  LET args == Args(cmd_and_args)
      full == IF Truthy(pseudo) THEN pseudo \o cmd_and_args ELSE cmd_and_args
  IN  Only({IF h.exc /= NONE
            THEN NativeRaise(h.st, h.mirrored, h.exc, h.msg, NONE, FALSE)
            ELSE ReadTargetSys(h, args, full, native_sysroot, pseudo, execs,
                               child) :
            h \in {GetVar(st, "HOSTTOOLS_DIR", NONE, TRUE)}})

------------------------------------------------------------------------------
(* The settings, the initial state and the operations. *)

\* the settings assigned from outside before first use
VarsDirs == {NONE, VarsRoot, PathJoin(VarsRoot, "a.env"), "/nowhere"}
DefaultImages == {NONE, "a"}

\* the executables the file system may hold when a command is dispatched
ExecSets == {{}, {"/sr/usr/bin/tar", "/sr/usr/bin/arm/foo", "/ht/sgdisk"}}

\* what may become of the child process that runs prog
Children(prog) ==
  {ChildExit(0, "ok\n"), ChildExit(1, "failed\n"),
   ChildExit(1, MsgWrapperCantFind(prog) \o "\n"),
   ChildExit(127, "sh: 1: " \o prog \o ": not found\n"),
   ChildExit(2, ""), ChildOSError(2), ChildOSError(13)}

\* the observation of the last call: its arguments and its outcome
NoCall ==
  [op |-> "none", var |-> NONE, image |-> NONE, cache |-> TRUE,
   exc |-> NONE, msg |-> "", result |-> NONE, parsed |-> NONE, fname |-> NONE,
   key |-> NONE, mirrored |-> NONE,
   cmd |-> NONE, shell |-> FALSE, pseudo |-> NONE, rc |-> -1, out |-> "", spawned |-> 0,
   searched |-> FALSE, prog |-> NONE, shell_cmd |-> NONE,
   decided |-> FALSE, paths |-> NONE, provided |-> NONE,
   child |-> ChildOSError(0), execs |-> {}, raced |-> FALSE]

\* the callers that may run get_var at the same time, and a caller that is
\* not inside a call
Threads == {"t1", "t2"}
Idle ==
  [pc |-> "idle", var |-> NONE, arg |-> NONE, image |-> NONE,
   image_key |-> NONE, fname |-> NONE, cache |-> TRUE, seen |-> {}]

Init ==
  /\ bb_vars = {}
  /\ default_image \in DefaultImages
  /\ vars_dir \in VarsDirs
  /\ files \in UNION {[D -> Contents] : D \in SUBSET FileNames}
  /\ ret = NoCall
  /\ first_default = NONE
  /\ threads = [t \in Threads |-> Idle]

\* BB_VARS.get_var(var, image, cache)
GetVarCall ==
  \E var \in VarArgs, image \in ImageArgs, cache \in BOOLEAN :
    \E r \in {GetVar(bb_vars, var, image, cache)} :
        /\ bb_vars' = r.st
        /\ ret' = [NoCall EXCEPT !.op = "get_var", !.var = var, !.image = image,
                   !.cache = cache, !.exc = r.exc, !.msg = r.msg,
                   !.result = r.result, !.parsed = r.parsed, !.fname = r.fname,
                   !.key = r.key, !.mirrored = r.mirrored]
        /\ first_default' = IF first_default = NONE THEN r.mirrored
                            ELSE first_default
        /\ UNCHANGED <<default_image, vars_dir, files, threads>>

\* the build system (re)generates an environment dump
WriteFile ==
  \E n \in FileNames, c \in Contents :
    /\ IF n \in DOMAIN files THEN files[n] /= c ELSE TRUE
    /\ files' = [k \in (DOMAIN files) \cup {n} |-> IF k = n THEN c ELSE files[k]]
    /\ UNCHANGED <<bb_vars, default_image, vars_dir, ret, first_default, threads>>

\* an environment dump is deleted
RemoveFile ==
  \E n \in DOMAIN files :
    /\ files' = [k \in (DOMAIN files) \ {n} |-> files[k]]
    /\ UNCHANGED <<bb_vars, default_image, vars_dir, ret, first_default, threads>>

\* the outcomes to consider for a call: those of a child process if the call
\* starts one, a single placeholder otherwise
ChildrenOf(cmd, pseudo, execs) ==
  IF ExecNativeCmd(bb_vars, cmd, NativeSysroot, pseudo, execs,
                   ChildExit(0, "")).spawned = 1
  THEN Children(CmdArgs[cmd][1])
  ELSE {ChildOSError(0)}

\* exec_native_cmd(cmd_and_args, native_sysroot, pseudo)
ExecNativeCmdCall ==
  \E cmd \in Commands, pseudo \in Pseudos, execs \in ExecSets :
    \E child \in ChildrenOf(cmd, pseudo, execs) :
      \E r \in {ExecNativeCmd(bb_vars, cmd, NativeSysroot, pseudo, execs, child)} :
          /\ bb_vars' = r.st
          /\ ret' = [NoCall EXCEPT !.op = "exec_native_cmd", !.cmd = cmd,
                     !.pseudo = pseudo, !.exc = r.exc, !.msg = r.msg,
                     !.rc = r.rc, !.out = r.out, !.spawned = r.spawned,
                     !.searched = r.searched, !.prog = r.prog,
                     !.shell_cmd = r.shell_cmd, !.mirrored = r.mirrored,
                     !.decided = r.decided, !.paths = r.paths,
                     !.provided = r.provided,
                     !.child = IF r.spawned >= 1 THEN child ELSE ChildOSError(0),
                     !.execs = IF r.searched THEN execs ELSE {}]
          /\ first_default' = IF first_default = NONE THEN r.mirrored
                              ELSE first_default
          /\ UNCHANGED <<default_image, vars_dir, files, threads>>

Next == GetVarCall \/ WriteFile \/ RemoveFile

\* the variable store and its source files
Spec == Init /\ [][Next]_vars

\* runtool(cmdln_or_args): the command line itself when shell is set, the list
\* of its words otherwise
RunToolCall ==
  \E cmd \in Commands, shell \in BOOLEAN :
    \E child \in Children(Words(cmd)[1]) :
      \E r \in {RunTool(IF shell THEN cmd ELSE Words(cmd), shell, child)} :
          /\ ret' = [NoCall EXCEPT !.op = "runtool", !.cmd = cmd,
                     !.shell = shell, !.exc = r.exc, !.msg = r.msg,
                     !.rc = r.rc, !.out = r.out, !.spawned = r.spawned,
                     !.child = child]
          /\ UNCHANGED <<bb_vars, default_image, vars_dir, files, first_default,
                         threads>>

NextNative == ExecNativeCmdCall \/ WriteFile \/ RemoveFile

\* the native command dispatch over the variable store and its source files
SpecNative == Init /\ [][NextNative]_vars

\* a caller runs get_var, with its default cache=True, up to the point where
\* the file is opened (lines 211-249): a call that finds the image in the
\* store, or that raises, is over at once; otherwise the caller has seen the
\* image absent and goes on to read the file
GetVarBegin(t) ==
  /\ threads[t].pc = "idle"
  /\ \E var \in VarArgs, image \in ImageArgs, cache \in {TRUE} :
       \E r \in {GetVar(bb_vars, var, image, cache)} :
          IF r.parsed = NONE
          THEN /\ bb_vars' = r.st
               /\ ret' = [NoCall EXCEPT !.op = "get_var", !.var = var,
                          !.image = image, !.cache = cache, !.exc = r.exc,
                          !.msg = r.msg, !.result = r.result, !.key = r.key]
               /\ UNCHANGED <<default_image, vars_dir, files, first_default,
                              threads>>
          ELSE /\ threads' = [threads EXCEPT ![t] =
                                [pc |-> "populating", var |-> var, arg |-> image,
                                 image |-> Resolve(image), image_key |-> r.parsed,
                                 fname |-> r.fname, cache |-> cache,
                                 seen |-> Keys(bb_vars)]]
               /\ UNCHANGED <<bb_vars, default_image, vars_dir, files, ret,
                              first_default>>

\* the caller reads the file into the submap, installs the default and looks
\* the variable up (lines 251-266), on the store as it is by now
GetVarEnd(t) ==
  /\ threads[t].pc = "populating"
  /\ \E c \in {threads[t]} :
       \E r \in {Populate(bb_vars, c.var, c.image, c.image_key, c.fname,
                          vars_dir, c.cache)} :
          /\ bb_vars' = r.st
          /\ ret' = [NoCall EXCEPT !.op = "get_var", !.var = c.var,
                     !.image = c.arg, !.cache = c.cache, !.exc = r.exc,
                     !.msg = r.msg, !.result = r.result, !.parsed = r.parsed,
                     !.fname = r.fname, !.key = r.key, !.mirrored = r.mirrored,
                     !.raced = c.image_key \in Keys(bb_vars)]
          /\ first_default' = IF first_default = NONE THEN r.mirrored
                              ELSE first_default
          /\ threads' = [threads EXCEPT ![t] = Idle]
          /\ UNCHANGED <<default_image, vars_dir, files>>

NextThreads == \E t \in Threads : GetVarBegin(t) \/ GetVarEnd(t)

\* callers of get_var that share the store without a lock, over files that
\* stay as they are
SpecThreads == Init /\ [][NextThreads]_vars

NextRun == RunToolCall \/ ExecNativeCmdCall

\* the process runner and the native command dispatch over files that stay
\* as they are
SpecRun == Init /\ [][NextRun]_vars

------------------------------------------------------------------------------
(* Properties of the variable store. *)

\* a step that is one get_var call: the file system is as it was and the
\* observation is a get_var's
IsGetStep == files' = files /\ ret'.op = "get_var"

\* what the file holds for a variable: its value in a submap freshly parsed
\* from the file, NONE when the file does not assign it
FileValue(fname, var) ==
  DictGet(Submap(Touch(ParseFile({}, FileLines(fname), "k"), "k"), "k"), var)

\* what get_var(var, image) would do on store st
Answer(st, var, image) == GetVar(st, var, image, TRUE)

\* C1: the source file is parsed into the submap of a key K only when K has
\* no submap in the store at that moment: a submap that holds variables read
\* from the file is never parsed into again while it is in the store.
C1_ParsedOnlyWhenAbsent ==
  [][(IsGetStep /\ ret'.parsed /= NONE /\ ret'.parsed \in Keys(bb_vars))
       => Submap(bb_vars, ret'.parsed) = EmptyDict]_vars

\* C2: after get(var, key, useCache=false) returned, the resolved key is not
\* in the store, and the next successful get with the same image argument
\* re-parses the file and returns what the file holds for the variable then.
C2_EvictedThenFresh ==
  [][(IsGetStep /\ ret.op = "get_var" /\ ret.exc = NONE /\ ~ret.cache)
       => /\ ret.key \notin Keys(bb_vars)
          /\ (ret'.image = ret.image /\ ret'.exc = NONE)
               => /\ ret'.parsed /= NONE
                  /\ ret'.result = FileValue(ret'.fname, ret'.var)]_vars

\* the source is a directory with exactly one .env file, no default image
SingleEnvDir == IsDir(vars_dir) /\ OneEnvFile /\ ~Truthy(default_image)

\* the image key derived from the only .env file
DerivedKey == SplitextRoot(CHOOSE f \in EnvFiles : TRUE)

\* on store st, get with no image key and get with key K succeed with the
\* same value
Agree(st, K) ==
  \A v \in VarArgs :
     /\ Answer(st, v, NONE).exc = NONE
     /\ Answer(st, v, K).exc = NONE
     /\ Answer(st, v, NONE).result = Answer(st, v, K).result

\* C3: with a directory holding exactly one .env file and no default image,
\* get with no image key succeeds, and after it get with no image key and
\* get with the derived key return the same value for every variable (here
\* for a store that holds no other image's key).
C3_DefaultMirrorsDerived ==
  [][(IsGetStep /\ SingleEnvDir /\ ret'.image = NONE /\ ret'.cache
        /\ Keys(bb_vars) \subseteq {NONE, DerivedKey})
       => (ret'.exc = NONE /\ Agree(bb_vars', DerivedKey))]_vars

\* C4: once the default key refers to image K's submap, it never refers to
\* another image's submap.
C4_DefaultMonotonic ==
  (first_default /= NONE /\ NONE \in Keys(bb_vars))
     => Obj(bb_vars, NONE).keys \subseteq {NONE, first_default}

\* the source is a directory with two or more .env files, no default image
ManyEnvDir ==
  IsDir(vars_dir) /\ Cardinality(EnvFiles) >= 2 /\ ~Truthy(default_image)

\* the step is a get with no image key that fails for want of disambiguation
FailsAmbiguous ==
  ret'.image = NONE /\ ret'.exc = "WicError" /\ ret'.msg = MsgMultiple(vars_dir)

\* C9 as stated: with two or more .env files in the source directory, get
\* with no image key fails with the disambiguation error in every store state.
C9_AmbiguousAlwaysFails ==
  [][(IsGetStep /\ ManyEnvDir /\ ret'.image = NONE) => FailsAmbiguous]_vars

\* C9 amended: with two or more .env files in the source directory and no
\* default image configured, get with no image key fails with the
\* disambiguation error whenever the default key has no submap in the store.
C9_AmbiguousFailsUnlessMirrored ==
  [][(IsGetStep /\ ManyEnvDir /\ ret'.image = NONE /\ NONE \notin Keys(bb_vars))
       => FailsAmbiguous]_vars

\* C9's case: the disambiguation error was raised on a store that already
\* holds a populated image
C9_Witness ==
  /\ ret.op = "get_var" /\ ret.image = NONE
  /\ ret.exc = "WicError" /\ ret.msg = MsgMultiple(vars_dir)
  /\ ManyEnvDir
  /\ \E k \in Keys(bb_vars) : Truthy(k) /\ Submap(bb_vars, k) /= EmptyDict

\* VALUE with one enclosing pair of double quotes removed, if it has one
StripOnePair(v) ==
  IF Len(v) >= 2 /\ Char(v, 1) = "\"" /\ Char(v, Len(v)) = "\""
  THEN SubSeq(v, 2, Len(v) - 1)
  ELSE v

\* the lines of the file that assign var
Assigning(fname, var) ==
  {l \in {FileLines(fname)[i] : i \in DOMAIN FileLines(fname)} :
      MatcherMatches(l) /\ MatchKey(l) = var}

\* C10: after a file with a line NAME=VALUE was read into a submap,
\* get(NAME, image) returns VALUE with one layer (at most one enclosing pair)
\* of double quotes removed.
C10_OneQuoteLayer ==
  [][(IsGetStep /\ ret'.parsed /= NONE /\ ret'.exc = NONE)
       => \A l \in Assigning(ret'.fname, ret'.var) :
             ret'.result = StripOnePair(MatchVal(l))]_vars

------------------------------------------------------------------------------
(* Properties of the native command dispatch. *)

\* the last call was an exec_native_cmd that started a child process, and
\* the child ran to an exit
Executed ==
  ret.op = "exec_native_cmd" /\ ret.spawned = 1 /\ ret.child.kind = "exit"

\* the child's outcome is the privilege-emulation wrapper reporting that it
\* cannot find the program
WrapperCantFind ==
  /\ Truthy(ret.pseudo)
  /\ ret.child.rc = 1
  /\ Strip(ret.child.out) = "Can't find '" \o ret.prog \o "' in $PATH."

\* the message is the missing-native-program error: it names the program and
\* its recipe as <recipe>-native, or asks to file a bug when the table has
\* no recipe for it
NamesProgramAndRecipe(msg, prog) ==
  /\ Contains(msg, "A native program " \o prog \o " ")
  /\ IF prog \in DOMAIN NATIVE_RECIPES
     THEN Contains(msg, " " \o NATIVE_RECIPES[prog] \o "-native ")
     ELSE Contains(msg, "file a bug")

\* the search over the constructed path was made and found the program
FoundBySearch ==
  /\ ret.searched
  /\ \E i \in DOMAIN SplitPath(ret.paths) :
        PathJoin(SplitPath(ret.paths)[i], ret.prog) \in ret.execs

\* C5: when the tool is available and is executed, the child's exit code and
\* output are returned to the caller for every exit code other than 127
\* (the wrapper's not-found report aside): no error is raised.
C5_ExitCodeReturned ==
  (Executed /\ FoundBySearch /\ ret.child.rc /= 127 /\ ~WrapperCantFind)
     => /\ ret.exc = NONE
        /\ ret.rc = ret.child.rc
        /\ ret.out = Strip(ret.child.out)

\* C6: after the tool was executed, an exit code of 127, or the wrapper's
\* not-found report under a privilege-emulation prefix, raises the
\* missing-native-program error naming the program and its recipe.
C6_NotFoundExitRaisesMissing ==
  (Executed /\ (ret.child.rc = 127 \/ WrapperCantFind))
     => /\ ret.exc = "WicError"
        /\ NamesProgramAndRecipe(ret.msg, ret.prog)

\* the executable search over the constructed path finds the program
OnPath ==
  \E i \in DOMAIN SplitPath(ret.paths) :
     PathJoin(SplitPath(ret.paths)[i], ret.prog) \in ret.execs

\* ASSUME_PROVIDED, read as a space-delimited list, has the entry
\* <recipe>-native for the program's recipe
ListedAsProvided ==
  /\ Truthy(ret.provided)
  /\ \E i \in DOMAIN Words(ret.provided) :
        Words(ret.provided)[i] = RecipeOf(ret.prog) \o "-native"

\* the last call was an exec_native_cmd whose program is unavailable: not
\* assumed provided and not found by the search over the constructed path
Unavailable ==
  /\ ret.op = "exec_native_cmd" /\ ret.decided
  /\ ret.searched /\ ~OnPath

\* C7: when the requested program is unavailable, exec_native_cmd starts no
\* child process and raises the missing-native-program error, whose message
\* has the program name and names its recipe as <recipe>-native if the table
\* has one, and asks to file a bug otherwise.
C7_UnavailableRaisesMissing ==
  Unavailable
     => /\ ret.spawned = 0
        /\ ret.exc = "WicError"
        /\ NamesProgramAndRecipe(ret.msg, ret.prog)

\* C7's case: sgdisk is unavailable and the error names gptfdisk-native
C7_Witness ==
  /\ Unavailable /\ ret.prog = "sgdisk" /\ ret.execs /= {}
  /\ ret.exc = "WicError" /\ Contains(ret.msg, "gptfdisk-native")

\* C8: a tool is taken as available without a path search exactly when
\* ASSUME_PROVIDED, read as a space-delimited list, has the entry
\* <recipe>-native; in every other case the path search decides.
C8_AssumedOnlyWhenListed ==
  (ret.op = "exec_native_cmd" /\ ret.decided)
     => (~ret.searched <=> ListedAsProvided)

------------------------------------------------------------------------------
(* Properties of the errors of get_var. *)

\* the variable-generation command the operator should run
RemediationCommand == "bitbake -c rootfs_wicenv"

\* the last call was a get_var that raised
GetFailed == ret.op = "get_var" /\ ret.exc /= NONE

\* C11: every error raised by get_var is the configuration error (WicError)
\* and its message carries the variable-generation command.
C11_ErrorsCarryRemediation ==
  GetFailed => (ret.exc = "WicError" /\ Contains(ret.msg, RemediationCommand))

------------------------------------------------------------------------------
(* Properties of the process runner. *)

\* the last call was a runtool whose process the operating system could not
\* start
StartFailed == ret.op = "runtool" /\ ret.child.kind = "oserror"

\* the command name runtool attempted: the first word of the command line
Attempted == Words(ret.cmd)[1]

\* the error is the cannot-run-command error naming the attempted command
IsProcessStartError ==
  /\ ret.exc = "WicError"
  /\ ret.msg = "Cannot run command: " \o Attempted \o ", lost dependency?"

\* C12 as stated: whenever the process cannot be started, for whatever
\* reason, runtool raises the cannot-run-command error naming the attempted
\* command.
C12_StartFailureAlwaysLostDependency == StartFailed => IsProcessStartError

\* C12 amended: when the process cannot be started because a file is not
\* found (errno 2), runtool raises the cannot-run-command error naming the
\* first word of the command; any other failure to start is relayed as the
\* operating system's error.
C12_StartFailureByErrno ==
  StartFailed => IF ret.child.errno = 2 THEN IsProcessStartError
                 ELSE ret.exc = "OSError"

\* C12's case: a shell string could not be started for want of a file, and
\* the error names its first word
C12_Witness ==
  /\ StartFailed /\ ret.shell /\ ret.child.errno = 2
  /\ ret.cmd = "export A=1;sgdisk -n 1"
  /\ ret.msg = "Cannot run command: export, lost dependency?"

------------------------------------------------------------------------------
(* Properties of _parse_line. *)

\* the line is NAME=VALUE with a NAME of one or more name characters
WellFormed(line) ==
  \E i \in 2..Len(line) :
     /\ Char(line, i) = "="
     /\ \A j \in 1..(i - 1) : Char(line, j) \in NameChars

\* C13: parsing a line that has no '=' or does not match the pattern, into
\* the submap of any image key, leaves the store as it is: no variable is
\* added, changed or removed and no image key appears.
C13_IllFormedLineIsNoOp ==
  \A line \in Lines, image \in ImageArgs :
     ~WellFormed(line) => ParseLine(bb_vars, line, image) = bb_vars

\* C13's case: a file whose lines are all ill-formed was read into a submap
\* that holds variables
C13_Witness ==
  /\ ret.op = "get_var" /\ ret.parsed /= NONE /\ IsFile(ret.fname)
  /\ \A i \in DOMAIN FileLines(ret.fname) : ~WellFormed(FileLines(ret.fname)[i])
  /\ ret.parsed \in Keys(bb_vars)
  /\ Submap(bb_vars, ret.parsed) /= EmptyDict

------------------------------------------------------------------------------
(* Properties of the command line exec_native_cmd builds. *)

\* the last call was an exec_native_cmd that did not fail reading the
\* variables of the store
Dispatched ==
  ret.op = "exec_native_cmd" /\ ~(ret.exc = "WicError" /\ ~ret.decided /\ ret.prog = NONE)

\* the final ';'-separated segment of the command line
FinalSegment(cmd) == SplitOn(cmd, ";")[Len(SplitOn(cmd, ";"))]

\* what the store answers for a variable with no image key
StoreValue(var) == Str(Answer(bb_vars, var, NONE).result)

\* the PATH export of the sysroot's sbin, usr/sbin, usr/bin,
\* usr/bin/<target>, bin and the host tools, in that order
PathExport ==
  "export PATH=" \o NativeSysroot \o "/sbin:" \o NativeSysroot \o "/usr/sbin:"
  \o NativeSysroot \o "/usr/bin:" \o NativeSysroot \o "/usr/bin/"
  \o StoreValue("TARGET_SYS") \o ":" \o NativeSysroot \o "/bin:"
  \o StoreValue("HOSTTOOLS_DIR") \o ":$PATH;"

\* C14: for every command line, the program name is the first word of the
\* final ';'-separated segment of the command line as the caller gave it,
\* and the command handed to the shell is the PATH export followed by the
\* prefix and the entire command line.
C14_ProgramFromFinalSegment ==
  Dispatched
     => /\ Words(FinalSegment(ret.cmd)) /= <<>>
        /\ ret.prog = Words(FinalSegment(ret.cmd))[1]
        /\ ret.spawned = 1
             => ret.shell_cmd = PathExport \o ret.pseudo \o ret.cmd

------------------------------------------------------------------------------
(* Properties of get_var under concurrent callers. *)

\* the step is caller t reading the file into the submap of the image it
\* asked for, while the store already holds that image
ParsesAgain(t) ==
  /\ threads[t].pc = "populating" /\ threads'[t].pc = "idle"
  /\ Truthy(threads[t].image)
  /\ threads[t].image \in Keys(bb_vars)

\* C15: nothing keeps two callers from both parsing the file into the same
\* submap; a caller parses into a submap that is already in the store only
\* when the image was absent at its own membership test, that is, when
\* another caller populated it in between. A caller alone parses once.
C15_DoubleParseOnlyByRace ==
  [][\A t \in Threads :
        ParsesAgain(t) => threads[t].image \notin threads[t].seen]_vars

\* C15's case: the double parse, a caller has read the file into the submap
\* another caller had populated meanwhile
C15_Witness ==
  /\ ret.op = "get_var" /\ ret.raced /\ ret.exc = NONE
  /\ Truthy(ret.image) /\ ret.parsed = ret.image
  /\ Submap(bb_vars, ret.parsed) /= EmptyDict

------------------------------------------------------------------------------
(* Properties of a failing get_var. *)

\* C16: a get_var call that fails with the configuration error leaves the
\* store as it was before the call: no key is added, removed or re-pointed
\* and no variable of any submap changes.
C16_FailingGetKeepsStore ==
  [][(IsGetStep /\ ret'.exc = "WicError") => bb_vars' = bb_vars]_vars

\* C16's case: a get_var failed on a store whose default key holds variables
C16_Witness ==
  /\ ret.op = "get_var" /\ ret.exc = "WicError"
  /\ NONE \in Keys(bb_vars)
  /\ Submap(bb_vars, NONE) /= EmptyDict

------------------------------------------------------------------------------
(* Properties of the memoization. *)

\* the last call was a get_var with cache=True that returned
Memoized == ret.op = "get_var" /\ ret.exc = NONE /\ ret.cache

\* C17: after get_var(var, image, cache=True) returned, the same call made
\* again reads no source file and answers from the store with the same
\* value, whatever the file held and whatever else the store holds.
C17_SecondGetFromStore ==
  Memoized
     => /\ Answer(bb_vars, ret.var, ret.image).exc = NONE
        /\ Answer(bb_vars, ret.var, ret.image).parsed = NONE
        /\ Answer(bb_vars, ret.var, ret.image).result = ret.result

------------------------------------------------------------------------------
(* Properties of the attempts a call makes. *)

\* the last call was a runtool or an exec_native_cmd
RanCommand == ret.op \in {"runtool", "exec_native_cmd"}

\* C18: a runtool or exec_native_cmd call tries to start at most one child
\* process, also when the attempt fails, and ends either with one result
\* (return code and output) or with one error, never both.
C18_SingleAttempt ==
  RanCommand
     => /\ ret.spawned <= 1
        /\ ret.op = "runtool" => ret.spawned = 1
        /\ IF ret.exc = NONE THEN ret.rc >= 0
           ELSE ret.rc = -1 /\ ret.out = ""

\* C18's case: the command was started once, failed, and the error reached
\* the caller
C18_Witness ==
  /\ ret.op = "exec_native_cmd" /\ ret.spawned = 1
  /\ ret.child.kind = "exit" /\ ret.child.rc = 1
  /\ ret.exc = "WicError"

====
